---- MODULE Spec2Model ----
(***************************************************************************)
(* Model of the bricks logging facade (src/bricks/log.py: init, logger,    *)
(* level) and of the debug decorators (src/bricks/debug.py: callable_name, *)
(* timeit, log_data).                                                      *)
(*                                                                         *)
(* The backend is the stdlib root logger (its handler list and level) and  *)
(* the structlog configuration (the filtering wrapper's level).  Handles   *)
(* returned by logger() are stdlib logging.Logger objects, identified by   *)
(* their name.                                                             *)
(*                                                                         *)
(* Spec     : operations called one after the other (one action per call). *)
(* SpecConc : init()/logger() run by several threads, one action per       *)
(*            access to the shared backend.                                *)
(***************************************************************************)
EXTENDS Integers, Sequences, FiniteSets, TLC

VARIABLES
    handlers,      \* handlers attached to the root logger, in attachment order
    rootLevel,     \* level of the root logger
    wrapperLevel,  \* level of structlog's filtering bound logger
    inits,         \* history: one record per execution of init's body (past line 50)
    isatty,        \* whether sys.stdout is an interactive terminal right now
    wrappers,      \* wrappers returned by timeit / log_data so far
    last,          \* the last call made and what it returned / raised
    pc,            \* SpecConc: each thread's position in init()/logger()
    overlapped     \* SpecConc history: some call began while another was in progress

vars == <<handlers, rootLevel, wrapperLevel, inits, isatty, wrappers, last,
          pc, overlapped>>

backendVars == <<handlers, rootLevel, wrapperLevel, inits>>

----------------------------------------------------------------------------
(* Bounds of the model *)

MaxWrappers == 1
MaxDt == 1
NThreads == 2

----------------------------------------------------------------------------
(* Values *)

\* logging.NOTSET / DEBUG / INFO / WARNING
NOTSET == 0
DEBUG == 10
INFO == 20
WARNING == 30

\* Python's None, where a name is expected
None == "<None>"

\* __package__ of src/bricks/log.py
Package == "bricks"

\* Names passed to logger(name); None is the omitted argument
Names == {None, "x", ""}

\* Packages of the code calling logger()
Callers == {"bricks", "app"}

\* The omitted `func`
NoFunc == [id |-> "None", callable |-> FALSE, qualname |-> None, name |-> None]

\* Objects passed as `func`: a function, a callable object exposing neither
\* __qualname__ nor __name__ (a functools.partial), and the non-callable 42.
Funcs ==
    { [id |-> "f", callable |-> TRUE, qualname |-> "f", name |-> "f"],
      [id |-> "partial", callable |-> TRUE, qualname |-> None, name |-> None],
      [id |-> "42", callable |-> FALSE, qualname |-> None, name |-> None] }

Targets == Funcs \cup {NoFunc}

\* Objects passed as `logger=`: nothing, a logging.Logger, a structlog BoundLogger
NoLogger == [type |-> "none", name |-> None]
LoggerArgs ==
    { NoLogger,
      [type |-> "Logger", name |-> "custom"],
      [type |-> "BoundLogger", name |-> "custom"] }

Kinds == {"timeit", "log_data"}

\* Arguments a wrapper is called with
CallArgs == {"()", "(x=5)"}

\* What the wrapped callable does when invoked
FuncOutcomes ==
    { [kind |-> "return", val |-> "r1"],
      [kind |-> "return", val |-> "r2"],
      [kind |-> "raise", val |-> "ValueError"] }

Threads == 1..NThreads

----------------------------------------------------------------------------
(* log.py *)

Backend ==
    [handlers |-> handlers, rootLevel |-> rootLevel,
     wrapperLevel |-> wrapperLevel, inits |-> inits]

\* Faulty variant: the check never sees a handler
hasHandlers_never(hs) == FALSE

\* logging.getLogger().hasHandlers(): the root logger has no parent, so this is
\* whether its own handler list is non-empty.
hasHandlers(hs) == Len(hs) > 0

level(debug) == IF debug THEN DEBUG ELSE INFO

\* Faulty variant: the two branches exchanged
SelectRenderer_swapped(tty) ==
    IF tty THEN <<"dict_tracebacks", "JSONRenderer">> ELSE <<"ConsoleRenderer">>

\* The renderer processors chosen from sys.stdout.isatty()
SelectRenderer(tty) ==
    IF tty THEN <<"ConsoleRenderer">> ELSE <<"dict_tracebacks", "JSONRenderer">>

\* logging.StreamHandler(sys.stdout) with the ProcessorFormatter set on it
Handler(renderer) ==
    [stream |-> "stdout", processors |-> <<"remove_processors_meta">> \o renderer]

\* Faulty variant: no early return when a handler is attached
init_nocheck(b, debug, tty, by) ==
    [handlers |-> Append(b.handlers, Handler(SelectRenderer(tty))),
     rootLevel |-> level(debug),
     wrapperLevel |-> level(debug),
     inits |-> Append(b.inits, [by |-> by, debug |-> debug, tty |-> tty])]

\* Faulty variant: the root level is set before the early return
init_level_first(b, debug, tty, by) ==
    IF hasHandlers(b.handlers)
    THEN [b EXCEPT !.rootLevel = level(debug)]
    ELSE init_nocheck(b, debug, tty, by)

\* init(debug) on backend b, stdout's terminal status being tty; `by` names the
\* public call that led here (history only).
init(b, debug, tty, by) ==
    IF hasHandlers(b.handlers)
    THEN b
    ELSE [handlers |-> Append(b.handlers, Handler(SelectRenderer(tty))),
          rootLevel |-> level(debug),
          wrapperLevel |-> level(debug),
          inits |-> Append(b.inits, [by |-> by, debug |-> debug, tty |-> tty])]

\* logging.getLogger(name): the root logger (named "root") for an empty name,
\* None or "root"; otherwise the logger of that name.
getLogger(name) ==
    IF name = None \/ name = "" \/ name = "root" THEN "root" ELSE name

\* Faulty variant: no lazy initialisation
logger_noinit(b, name, tty, by) ==
    [backend |-> b, handle |-> getLogger(IF name = None THEN Package ELSE name)]

\* Faulty variant: an omitted name is passed on to logging.getLogger as it is
logger_nodefault(b, name, tty, by) ==
    [backend |-> IF ~hasHandlers(b.handlers) THEN init(b, FALSE, tty, by) ELSE b,
     handle |-> getLogger(name)]

\* logger(name): the backend afterwards and the name of the handle returned
logger(b, name, tty, by) ==
    [backend |-> IF ~hasHandlers(b.handlers) THEN init(b, FALSE, tty, by) ELSE b,
     handle |-> getLogger(IF name = None THEN Package ELSE name)]

----------------------------------------------------------------------------
(* Initial state: the module has been imported, nothing has been called *)

Idle == [at |-> "idle", debug |-> FALSE, by |-> "none", renderer |-> <<>>]

Init ==
    /\ handlers = <<>>
    /\ rootLevel = WARNING
    /\ wrapperLevel = NOTSET
    /\ inits = <<>>
    /\ isatty \in BOOLEAN
    /\ wrappers = {}
    /\ last = [op |-> "none"]
    /\ pc = [t \in Threads |-> Idle]
    /\ overlapped = FALSE

SetBackend(b) ==
    /\ handlers' = b.handlers
    /\ rootLevel' = b.rootLevel
    /\ wrapperLevel' = b.wrapperLevel
    /\ inits' = b.inits

\* init(debug) called
InitCall(debug) ==
    /\ SetBackend(init(Backend, debug, isatty, "init"))
    /\ last' = [op |-> "init", debug |-> debug]
    /\ UNCHANGED <<isatty, wrappers, pc, overlapped>>

\* logger(name) called from package `caller`
LoggerCall(caller, name) ==
    LET r == logger(Backend, name, isatty, "logger") IN
    /\ SetBackend(r.backend)
    /\ last' = [op |-> "logger", caller |-> caller, name |-> name, ret |-> r.handle]
    /\ UNCHANGED <<isatty, wrappers, pc, overlapped>>

\* The environment: stdout is redirected to / from a terminal
SetTty ==
    /\ isatty' = ~isatty
    /\ last' = [op |-> "tty"]
    /\ UNCHANGED <<backendVars, wrappers, pc, overlapped>>

----------------------------------------------------------------------------
(* debug.py *)

\* __qualname__, else __name__, else "unknown name" (None: no such attribute)
callable_name(func) ==
    IF func.qualname # None THEN func.qualname
    ELSE IF func.name # None THEN func.name
    ELSE "unknown name"

\* isinstance(logger, log.LoggerType), LoggerType being logging.Logger
IsLoggerType(lg) == lg.type = "Logger"

\* `not logger or not isinstance(logger, log.LoggerType)`
NeedsDefaultLogger(lg) == lg.type = "none" \/ ~IsLoggerType(lg)

Wrapper(kind, func, name, lgname) ==
    [kind |-> kind, func |-> func, name |-> name, logger |-> lgname]

\* Faulty variant: no callable() test
timeit_nocheck(b, func, lg, tty) ==
    IF func = NoFunc
    THEN [outcome |-> "partial", backend |-> b, made |-> {}]
    ELSE LET name == callable_name(func)
             r == logger(b, name, tty, "decorate")
         IN  IF NeedsDefaultLogger(lg)
             THEN [outcome |-> "wrapper", backend |-> r.backend,
                   made |-> {Wrapper("timeit", func, name, r.handle)}]
             ELSE [outcome |-> "wrapper", backend |-> b,
                   made |-> {Wrapper("timeit", func, name, lg.name)}]

\* Faulty variant: the `logger` argument is used as given, no default is looked up
timeit_keeplogger(b, func, lg, tty) ==
    IF func = NoFunc
    THEN [outcome |-> "partial", backend |-> b, made |-> {}]
    ELSE IF ~func.callable
    THEN [outcome |-> "TypeError", backend |-> b, made |-> {}]
    ELSE [outcome |-> "wrapper", backend |-> b,
          made |-> {Wrapper("timeit", func, callable_name(func), lg.name)}]

\* timeit(func, logger=lg): what the call gives ("partial": the decorator
\* awaiting func; "TypeError"; "wrapper"), the backend afterwards and the
\* wrapper made.
timeit(b, func, lg, tty) ==
    IF func = NoFunc
    THEN [outcome |-> "partial", backend |-> b, made |-> {}]
    ELSE IF ~func.callable
    THEN [outcome |-> "TypeError", backend |-> b, made |-> {}]
    ELSE LET name == callable_name(func)
             r == logger(b, name, tty, "decorate")
         IN  IF NeedsDefaultLogger(lg)
             THEN [outcome |-> "wrapper", backend |-> r.backend,
                   made |-> {Wrapper("timeit", func, name, r.handle)}]
             ELSE [outcome |-> "wrapper", backend |-> b,
                   made |-> {Wrapper("timeit", func, name, lg.name)}]

\* log_data(func, logger=lg)
log_data(b, func, lg, tty) ==
    IF func = NoFunc
    THEN [outcome |-> "partial", backend |-> b, made |-> {}]
    ELSE IF ~func.callable
    THEN [outcome |-> "TypeError", backend |-> b, made |-> {}]
    ELSE LET name == callable_name(func)
             r == logger(b, name, tty, "decorate")
         IN  IF NeedsDefaultLogger(lg)
             THEN [outcome |-> "wrapper", backend |-> r.backend,
                   made |-> {Wrapper("log_data", func, name, r.handle)}]
             ELSE [outcome |-> "wrapper", backend |-> b,
                   made |-> {Wrapper("log_data", func, name, lg.name)}]

\* Keyword arguments logging.Logger._log accepts
LoggerKwargs == {"exc_info", "extra", "stack_info", "stacklevel"}

\* Logger.isEnabledFor(lvl): the handle's own level is NOTSET, so its effective
\* level is the root logger's.
isEnabledFor(lvl, rootLvl) == lvl >= rootLvl

\* logger.debug(msg, **fields) on a logging.Logger handle: nothing happens when
\* DEBUG is not enabled; otherwise the fields are passed on to Logger._log, which
\* raises TypeError for a keyword it does not know; otherwise the record goes to
\* the handlers.
Logger_debug(rootLvl, fields) ==
    IF ~isEnabledFor(DEBUG, rootLvl) THEN "dropped"
    ELSE IF ~(fields \subseteq LoggerKwargs) THEN "TypeError"
    ELSE "handled"

DebugStep(msg, fields, res) ==
    [step |-> "debug", msg |-> msg, fields |-> fields, result |-> res]

\* func(*args, **kwargs)
Invoke(func, fo) ==
    IF func.callable THEN fo ELSE [kind |-> "raise", val |-> "TypeError"]

InvokeStep(args, res) ==
    [step |-> "invoke", msg |-> args, fields |-> {}, result |-> res.kind]

TypeError == [kind |-> "raise", val |-> "TypeError"]

\* The wrapper timeit returns, called with args while the root level is
\* rootLvl; the callable does fo.  Gives the steps taken and the call's outcome.
timeit_wrapper(w, rootLvl, args, fo) ==
    LET res == Invoke(w.func, fo)
        d == Logger_debug(rootLvl, {"name", "duration", "start_time"})
    IN  IF res.kind = "raise"
        THEN [trace |-> <<InvokeStep(args, res)>>, outcome |-> res]
        ELSE [trace |-> <<InvokeStep(args, res),
                          DebugStep("Method timed",
                                    {"name", "duration", "start_time"}, d)>>,
              outcome |-> IF d = "TypeError" THEN TypeError ELSE res]

\* The wrapper log_data returns
log_data_wrapper(w, rootLvl, args, fo) ==
    LET d1 == Logger_debug(rootLvl, {"name", "args", "kwargs"})
        s1 == DebugStep("Decorated method called, input logged",
                        {"name", "args", "kwargs"}, d1)
        res == Invoke(w.func, fo)
        d2 == Logger_debug(rootLvl, {"name", "result"})
        s2 == DebugStep("Decorated method results logged", {"name", "result"}, d2)
    IN  IF d1 = "TypeError"
        THEN [trace |-> <<s1>>, outcome |-> TypeError]
        ELSE IF res.kind = "raise"
        THEN [trace |-> <<s1, InvokeStep(args, res)>>, outcome |-> res]
        ELSE [trace |-> <<s1, InvokeStep(args, res), s2>>,
              outcome |-> IF d2 = "TypeError" THEN TypeError ELSE res]

\* timeit(func, logger=lg) / log_data(func, logger=lg) called
Decorate(kind, func, lg) ==
    LET r == IF kind = "timeit" THEN timeit(Backend, func, lg, isatty)
             ELSE log_data(Backend, func, lg, isatty)
    IN  /\ Cardinality(wrappers \cup r.made) <= MaxWrappers
        /\ SetBackend(r.backend)
        /\ wrappers' = wrappers \cup r.made
        /\ last' = [op |-> "decorate", kind |-> kind, func |-> func, lg |-> lg,
                    outcome |-> r.outcome, made |-> r.made]
        /\ UNCHANGED <<isatty, pc, overlapped>>

\* A wrapper is called; the wrapped callable does fo, and time.perf_counter()
\* advances by dt between the wrapper's two readings of it.
CallWrapper(w, args, fo, dt) ==
    LET r == IF w.kind = "timeit" THEN timeit_wrapper(w, rootLevel, args, fo)
             ELSE log_data_wrapper(w, rootLevel, args, fo)
    IN  /\ last' = [op |-> "call", w |-> w, args |-> args, fOutcome |-> fo,
                    trace |-> r.trace, outcome |-> r.outcome, duration |-> dt]
        /\ UNCHANGED <<backendVars, isatty, wrappers, pc, overlapped>>

Next ==
    \/ \E debug \in BOOLEAN : InitCall(debug)
    \/ \E caller \in Callers, name \in Names : LoggerCall(caller, name)
    \/ \E kind \in Kinds, func \in Targets, lg \in LoggerArgs : Decorate(kind, func, lg)
    \/ \E w \in wrappers, args \in CallArgs, fo \in FuncOutcomes, dt \in 0..MaxDt :
            CallWrapper(w, args, fo, dt)
    \/ SetTty

Spec == Init /\ [][Next]_vars

----------------------------------------------------------------------------
(* init() and logger() run by several threads.  Each action is one access  *)
(* to the shared backend; a thread holds between them what the code holds  *)
(* in locals (debug, the renderer chosen).                                 *)

At(t, at) == pc[t].at = at

Busy(t) == \E u \in Threads \ {t} : ~At(u, "idle")

\* Thread t calls init(debug): it is at line 49
T_Init(t, debug) ==
    /\ At(t, "idle")
    /\ pc' = [pc EXCEPT ![t] = [Idle EXCEPT !.at = "check", !.debug = debug,
                                            !.by = "init"]]
    /\ overlapped' = (overlapped \/ Busy(t))
    /\ UNCHANGED <<backendVars, isatty, wrappers, last>>

\* Thread t calls logger(name): line 122, then line 123 (at line 49) or the return
T_Logger(t) ==
    /\ At(t, "idle")
    /\ IF ~hasHandlers(handlers)
       THEN /\ pc' = [pc EXCEPT ![t] = [Idle EXCEPT !.at = "check", !.by = "logger"]]
            /\ overlapped' = (overlapped \/ Busy(t))
       ELSE UNCHANGED <<pc, overlapped>>
    /\ UNCHANGED <<backendVars, isatty, wrappers, last>>

\* Lines 49-50: return if a handler is attached
T_Check(t) ==
    /\ At(t, "check")
    /\ IF hasHandlers(handlers)
       THEN /\ pc' = [pc EXCEPT ![t] = Idle]
            /\ UNCHANGED inits
       ELSE /\ pc' = [pc EXCEPT ![t].at = "configure"]
            /\ inits' = Append(inits, [by |-> pc[t].by, debug |-> pc[t].debug,
                                       tty |-> isatty])
    /\ UNCHANGED <<handlers, rootLevel, wrapperLevel, isatty, wrappers, last, overlapped>>

\* Lines 52-85: structlog.configure
T_Configure(t) ==
    /\ At(t, "configure")
    /\ wrapperLevel' = level(pc[t].debug)
    /\ pc' = [pc EXCEPT ![t].at = "select"]
    /\ UNCHANGED <<handlers, rootLevel, inits, isatty, wrappers, last, overlapped>>

\* Lines 88-96: the renderer, from sys.stdout.isatty()
T_Select(t) ==
    /\ At(t, "select")
    /\ pc' = [pc EXCEPT ![t].at = "attach", ![t].renderer = SelectRenderer(isatty)]
    /\ UNCHANGED <<backendVars, isatty, wrappers, last, overlapped>>

\* Lines 99-111: root_logger.addHandler(handler)
T_Attach(t) ==
    /\ At(t, "attach")
    /\ handlers' = Append(handlers, Handler(pc[t].renderer))
    /\ pc' = [pc EXCEPT ![t].at = "setLevel"]
    /\ UNCHANGED <<rootLevel, wrapperLevel, inits, isatty, wrappers, last, overlapped>>

\* Line 112: root_logger.setLevel(log_level), and the return
T_SetLevel(t) ==
    /\ At(t, "setLevel")
    /\ rootLevel' = level(pc[t].debug)
    /\ pc' = [pc EXCEPT ![t] = Idle]
    /\ UNCHANGED <<handlers, wrapperLevel, inits, isatty, wrappers, last, overlapped>>

NextConc ==
    \/ \E t \in Threads, debug \in BOOLEAN : T_Init(t, debug)
    \/ \E t \in Threads : T_Logger(t)
    \/ \E t \in Threads : T_Check(t)
    \/ \E t \in Threads : T_Configure(t)
    \/ \E t \in Threads : T_Select(t)
    \/ \E t \in Threads : T_Attach(t)
    \/ \E t \in Threads : T_SetLevel(t)

SpecConc == Init /\ [][NextConc]_vars

----------------------------------------------------------------------------
(* Properties *)

ConsoleHandler ==
    [stream |-> "stdout",
     processors |-> <<"remove_processors_meta", "ConsoleRenderer">>]

JsonHandler ==
    [stream |-> "stdout",
     processors |-> <<"remove_processors_meta", "dict_tracebacks", "JSONRenderer">>]

\* C1: in sequential use, once init() or logger() has been called exactly one
\* handler is attached to the root logger, and it stays exactly one under every
\* later operation; an init() call made while a handler is attached changes
\* nothing of the backend (handlers, root level, structlog level).
C1_OneHandler ==
    [][ /\ (last'.op \in {"init", "logger"} => Len(handlers') = 1)
        /\ (Len(handlers) = 1 => Len(handlers') = 1)
        /\ ((last'.op = "init" /\ Len(handlers) > 0) => UNCHANGED backendVars)
      ]_vars

\* An init(debug) call made after logger() had already attached the handler
C1_Witness ==
    /\ last.op = "init"
    /\ Len(handlers) = 1
    /\ Len(inits) = 1
    /\ inits[1].by = "logger"

\* C2: a logger(name) call on a backend with no handler runs init's body once,
\* with debug = false (root level INFO), and attaches the handler; logger("x")
\* returns the handle named "x"; a logger(name) call on a backend with a handler
\* runs no initialisation, and a handler once attached stays attached, so that
\* holds for every later logger call.
C2_LazyDefaultInit ==
    [][ /\ (last'.op = "logger" /\ last'.name = "x" => last'.ret = "x")
        /\ (last'.op = "logger" /\ Len(handlers) = 0 =>
                /\ Len(inits') = Len(inits) + 1
                /\ inits'[Len(inits')].debug = FALSE
                /\ inits'[Len(inits')].by = "logger"
                /\ rootLevel' = INFO
                /\ Len(handlers') = 1)
        /\ (last'.op = "logger" /\ Len(handlers) > 0 => inits' = inits)
        /\ (Len(handlers) > 0 => Len(handlers') > 0)
      ]_vars

\* logger("x") was the first call: it initialised, and returned the handle "x"
C2_Witness ==
    /\ last.op = "logger"
    /\ last.name = "x"
    /\ last.ret = "x"
    /\ Len(inits) = 1
    /\ inits[1].by = "logger"
    /\ rootLevel = INFO

\* C3: the execution of init's body sets the root level and the structlog level
\* to DEBUG when it comes from init(debug=true) and to INFO otherwise; once the
\* body has run, no operation changes either level.
C3_LevelSetOnce ==
    [][ /\ (Len(inits) = 0 /\ Len(inits') > 0 =>
                LET lvl == IF last'.op = "init" /\ last'.debug THEN DEBUG ELSE INFO
                IN  rootLevel' = lvl /\ wrapperLevel' = lvl)
        /\ (Len(inits) > 0 => rootLevel' = rootLevel /\ wrapperLevel' = wrapperLevel)
      ]_vars

\* logger() first, init(debug=true) afterwards: the level is still INFO
C3_Witness ==
    /\ last.op = "init"
    /\ last.debug
    /\ Len(inits) = 1
    /\ inits[1].by = "logger"
    /\ rootLevel = INFO
    /\ wrapperLevel = INFO

\* C4: the step that attaches the handler attaches the console handler iff
\* stdout is a terminal at that moment, and otherwise the handler with
\* dict_tracebacks followed by the JSON renderer; once a handler is attached no
\* operation (a change of stdout's terminal status included) changes it.
C4_RendererChosenOnce ==
    [][ /\ (Len(handlers) = 0 /\ Len(handlers') > 0 =>
                handlers' = <<IF isatty THEN ConsoleHandler ELSE JsonHandler>>)
        /\ (Len(handlers) > 0 => handlers' = handlers)
      ]_vars

\* The console renderer is in place, stdout is no longer a terminal, and an
\* init/logger call has been made since
C4_Witness ==
    /\ handlers = <<ConsoleHandler>>
    /\ ~isatty
    /\ last.op \in {"init", "logger"}

DebugSteps(trace) == {i \in 1..Len(trace) : trace[i].step = "debug"}

Produced(st) == st.step = "debug" /\ st.result # "TypeError"

\* C5 (as claimed): a call of a timeit wrapper whose callable returns r returns
\* r and produces exactly one DEBUG event, after the callable was invoked, with
\* the fields name, duration (>= 0) and start_time; if the callable raises, the
\* same exception leaves the wrapper and no event is produced.
C5_TimeitClaim ==
    (last.op = "call" /\ last.w.kind = "timeit") =>
        IF last.fOutcome.kind = "return"
        THEN /\ last.outcome = last.fOutcome
             /\ Len(last.trace) = 2
             /\ last.trace[1].step = "invoke"
             /\ Produced(last.trace[2])
             /\ last.trace[2].fields = {"name", "duration", "start_time"}
             /\ last.duration >= 0
        ELSE /\ last.outcome = last.fOutcome
             /\ DebugSteps(last.trace) = {}

\* C6 (as claimed): a call of a log_data wrapper produces one DEBUG event with
\* name, args, kwargs, then invokes the callable with the original arguments,
\* then produces one DEBUG event with name, result and returns the result; if
\* the callable raises, only the first event is produced and the exception
\* leaves the wrapper.
C6_LogDataClaim ==
    (last.op = "call" /\ last.w.kind = "log_data") =>
        /\ Len(last.trace) >= 2
        /\ Produced(last.trace[1])
        /\ last.trace[1].fields = {"name", "args", "kwargs"}
        /\ last.trace[2].step = "invoke"
        /\ last.trace[2].msg = last.args
        /\ last.outcome = last.fOutcome
        /\ IF last.fOutcome.kind = "return"
           THEN /\ Len(last.trace) = 3
                /\ Produced(last.trace[3])
                /\ last.trace[3].fields = {"name", "result"}
           ELSE Len(last.trace) = 2

\* C7: timeit(x) and log_data(x) with x given and not callable raise TypeError,
\* make no wrapper and leave the backend alone; so every wrapper wraps a
\* callable, and no call of a wrapper fails for a non-callable target.
C7_TypeErrorAtDecoration ==
    /\ [][ (last'.op = "decorate" /\ last'.func # NoFunc /\ ~last'.func.callable) =>
                /\ last'.outcome = "TypeError"
                /\ wrappers' = wrappers
                /\ UNCHANGED backendVars ]_vars
    /\ [](\A w \in wrappers : w.func.callable)
    /\ [](last.op = "call" => last.w.func.callable)

\* timeit(42) / log_data(42) raised TypeError
C7_Witness ==
    /\ last.op = "decorate"
    /\ last.func.id = "42"
    /\ last.outcome = "TypeError"
    /\ wrappers = {}

\* C8 (as claimed): logger() with the name omitted returns the handle named
\* after the caller's package.
C8_CallerPackageClaim ==
    (last.op = "logger" /\ last.name = None) => last.ret = last.caller

\* C8 (amended): logger() with the name omitted returns the handle named
\* "bricks", the package of the log module itself, whatever package calls it.
C8_OwnPackage ==
    (last.op = "logger" /\ last.name = None) => last.ret = "bricks"

\* logger() called from package "app" returned the handle "bricks"
C8_Witness ==
    /\ last.op = "logger"
    /\ last.name = None
    /\ last.caller = "app"
    /\ last.ret = "bricks"

\* C9: with threads, more than one handler is attached only if some call began
\* while another call was in progress (never when the calls are serialised),
\* and every attached handler belongs to an execution that passed the check of
\* line 49.
C9_DuplicateOnlyByRace ==
    /\ (Len(handlers) > 1 => overlapped)
    /\ Len(handlers) <= Len(inits)

\* Two threads both passed the check and both attached a handler
C9_Witness ==
    /\ Len(handlers) = 2
    /\ Len(inits) = 2
    /\ overlapped
    /\ \A t \in Threads : At(t, "idle")

\* C10: decorating a callable with timeit or log_data, no logging.Logger being
\* supplied, on a backend with no handler runs init's body in that very call,
\* with level INFO; calling a wrapper never touches the backend; and whenever
\* the backend was initialised by a decoration its level is INFO, above DEBUG,
\* whatever init(debug) calls follow.
C10_InitAtDecoration ==
    /\ [][ /\ (/\ last'.op = "decorate"
               /\ last'.func.callable
               /\ last'.lg.type # "Logger"
               /\ Len(handlers) = 0)
              => (/\ Len(handlers') = 1
                  /\ Len(inits') = 1
                  /\ inits'[1].by = "decorate"
                  /\ rootLevel' = INFO)
           /\ (last'.op = "call" => UNCHANGED backendVars) ]_vars
    /\ []((Len(inits) > 0 /\ inits[1].by = "decorate") =>
              (rootLevel = INFO /\ rootLevel > DEBUG))

\* A decoration initialised the backend, init(debug=true) followed: still INFO
C10_Witness ==
    /\ last.op = "init"
    /\ last.debug
    /\ Len(inits) = 1
    /\ inits[1].by = "decorate"
    /\ rootLevel = INFO

====
